---- MODULE Spec2Model ----
(***************************************************************************)
(* SecureCode - Security Testing Tool (src/app.py, src/user_controller.py) *)
(*                                                                         *)
(* The application is a Streamlit script: every user interaction re-runs   *)
(* the script top to bottom against st.session_state.  One action of this  *)
(* module is one interaction: the widget event, the on_change callback it  *)
(* fires, the script run it triggers and, where the script calls           *)
(* st.rerun(), the run that follows.  Calls to collaborators (scanner,     *)
(* rewrite, persistence, auth) return a value or raise, chosen by \E.      *)
(***************************************************************************)
EXTENDS Integers, Sequences, FiniteSets, TLC

VARIABLES
    session_state,     \* the application's keys of st.session_state
    widgets,           \* checkbox widget states kept by the framework, by widget identity
    rendered_boxes,    \* identities of the checkboxes drawn by the last script run
    resolve_button,    \* the last run drew 'Resolve Selected Issues with OpenAI'
    login_button,      \* the last run drew an enabled Login button
    option,            \* value of the sidebar option_menu
    title,             \* value of the title text_input
    user_code,         \* value of the st_ace editor (key "user_code")
    event,             \* the interaction that triggered the last run
    calls,             \* collaborator calls made by the last interaction, in order
    report_source,     \* the code of the scan that last wrote vulnerability_report
    recent_codes,      \* rows returned by user_model.get_recent_codes
    search_query,      \* value of the history search text_input
    start_date,        \* value of the "Start Date" date_input
    end_date,          \* value of the "End Date" date_input
    clock,             \* the two readings of datetime.now().date() of the last history run
    grouped_codes      \* grouped_codes as built by the last history run

vars == <<session_state, widgets, rendered_boxes, resolve_button, login_button,
          option, title, user_code, event, calls, report_source,
          recent_codes, search_query, start_date, end_date, clock, grouped_codes>>

histVars == <<recent_codes, search_query, start_date, end_date, clock, grouped_codes>>

----------------------------------------------------------------------------
(* Bounds and value sets                                                   *)

MaxIssues == 2      \* most issues in one scanner report
MaxRows == 2        \* most rows returned by get_recent_codes

None == "None"      \* Python None

\* What a collaborator call does: it returns a value or it raises.
Returns(v) == [raised |-> FALSE, value |-> v]
Raises == [raised |-> TRUE, value |-> None]

UserIds == {"id1"}
Usernames == {"alice"}
Titles == {"", "t"}
Codes == {"", "c1", "c2"}
FixedCodes == {"f"}

TextBlock == [kind |-> "text", desc |-> "", sev |-> "", conf |-> "", loc |-> ""]

IssueBlock(n) ==
    [kind |-> "issue", desc |-> ToString(n), sev |-> "HIGH", conf |-> "MEDIUM",
     loc |-> ToString(n)]

\* A report is the sequence of its blocks; "" is the empty sequence.
EmptyReport == <<>>

IssueRun(a, b) == <<TextBlock>> \o [i \in 1..(b - a + 1) |-> IssueBlock(a + i - 1)]

\* The reports the scanner returns here: one without issues, and reports of up
\* to MaxIssues issues that share issues at the same or at other indices.
Reports ==
    {<<TextBlock>>}
        \cup {IssueRun(1, b) : b \in 1..MaxIssues}
        \cup {IssueRun(2, MaxIssues)}

----------------------------------------------------------------------------
(* Pure helpers of app.py                                                  *)

Format(b) ==
    <<"Issue: ", b.desc, "\nSeverity: ", b.sev, " | Confidence: ", b.conf,
      " | Location: ", b.loc>>

IsIssue(b) == b.kind = "issue"

parse_vulnerabilities(vulnerability_report) ==
    LET issues == SelectSeq(vulnerability_report, IsIssue)
    IN  [i \in 1..Len(issues) |-> Format(issues[i])]

checkbox_key(i) == <<"issue_", i>>

EmptyDict == [k \in {} |-> FALSE]

any_values(d) == \E k \in DOMAIN d : d[k]

update_issues_selected(ss) ==
    LET s1 == [ss EXCEPT !.issues_selected = any_values(ss.selected_issues)]
    IN  [s1 EXCEPT !.show_resolve_button = s1.issues_selected]

\* "\n".join(texts)
RECURSIVE join(_)
join(texts) ==
    IF Len(texts) = 0 THEN <<>>
    ELSE IF Len(texts) = 1 THEN texts[1]
    ELSE texts[1] \o <<"\n">> \o join(Tail(texts))

session_vars ==
    [logged_in |-> FALSE,
     vulnerability_report |-> EmptyReport,
     last_user_code |-> "",
     fixed_code |-> "",
     issue_resolved |-> FALSE,
     user_id |-> None,
     selected_issues |-> EmptyDict,
     issues_selected |-> FALSE,
     show_resolve_button |-> FALSE,
     scan_complete |-> FALSE]

----------------------------------------------------------------------------
(* The framework's checkbox, app.py lines 218-221.  A widget's identity is *)
(* its key, label and default value; a widget whose identity was drawn     *)
(* before returns the state the browser last sent for it, a new identity   *)
(* returns its default.                                                    *)

widget_id(i, label, value) == [key |-> checkbox_key(i), label |-> label, value |-> value]

checkbox(w, id) == IF id \in DOMAIN w THEN w[id] ELSE id.value

Merge(f, g) == [x \in DOMAIN f \cup DOMAIN g |-> IF x \in DOMAIN g THEN g[x] ELSE f[x]]

NoWidgets == [x \in {} |-> FALSE]

\* app.py lines 212-221: for i, issue in enumerate(issues), from index i on.
\* reg collects the widgets drawn so far in this run.
RECURSIVE render_issues(_, _, _, _, _)
render_issues(issues, i, selected, w, reg) ==
    IF i >= Len(issues) THEN [selected_issues |-> selected, registered |-> reg]
    ELSE LET key == checkbox_key(i)
             ensured == IF key \in DOMAIN selected THEN selected
                        ELSE Merge(selected, [k \in {key} |-> FALSE])
             id == widget_id(i, issues[i + 1], ensured[key])
             ticked == checkbox(w, id)
         IN  render_issues(issues, i + 1, [ensured EXCEPT ![key] = ticked], w,
                           Merge(reg, [x \in {id} |-> ticked]))

\* app.py lines 205-221
report_block(ss, w) ==
    IF ss.vulnerability_report # EmptyReport
    THEN LET r == render_issues(parse_vulnerabilities(ss.vulnerability_report), 0,
                                ss.selected_issues, w, NoWidgets)
         IN  [ss |-> [ss EXCEPT !.selected_issues = r.selected_issues],
              registered |-> r.registered]
    ELSE [ss |-> ss, registered |-> NoWidgets]

Call(op, args, result) == [op |-> op, args |-> args, result |-> result]

will_scan(ss, t, c, check) ==
    (check \/ ss.scan_complete = FALSE) /\ c # "" /\ t # ""

\* app.py lines 181-202
scan_block(ss, t, c, check, scan_r, save_r) ==
    IF will_scan(ss, t, c, check)
    THEN LET s1 == [ss EXCEPT !.vulnerability_report = EmptyReport,
                              !.selected_issues = EmptyDict,
                              !.scan_complete = FALSE,
                              !.last_user_code = c]
             scan == Call("scan_vulnerabilities", <<c>>, scan_r)
         IN  IF scan_r.raised
             THEN [ss |-> s1, calls |-> <<scan>>, raised |-> TRUE]
             ELSE LET s2 == [s1 EXCEPT !.vulnerability_report = scan_r.value,
                                       !.scan_complete = TRUE,
                                       !.issue_resolved = FALSE]
                      save == Call("save_code",
                                   <<s2.user_id, t, s2.last_user_code, None>>, save_r)
                  IN  IF s2.user_id # None
                      THEN [ss |-> s2, calls |-> <<scan, save>>,
                            raised |-> save_r.raised]
                      ELSE [ss |-> s2, calls |-> <<scan>>, raised |-> FALSE]
    ELSE [ss |-> ss, calls |-> <<>>, raised |-> FALSE]

\* Faulty variant of selected_texts (for C7): the ticked issues are collected
\* last index first.
RECURSIVE selected_texts_reversed(_, _, _)
selected_texts_reversed(issues, i, selected) ==
    IF i >= Len(issues) THEN <<>>
    ELSE selected_texts_reversed(issues, i + 1, selected)
             \o (IF selected[<<"issue_", i>>] THEN <<issues[i + 1]>> ELSE <<>>)

\* app.py lines 226-229: the texts of the ticked issues, by enumerate order
RECURSIVE selected_texts(_, _, _)
selected_texts(issues, i, selected) ==
    IF i >= Len(issues) THEN <<>>
    ELSE (IF selected[checkbox_key(i)] THEN <<issues[i + 1]>> ELSE <<>>)
             \o selected_texts(issues, i + 1, selected)

selected_issues_text(ss) ==
    join(selected_texts(parse_vulnerabilities(ss.vulnerability_report), 0,
                        ss.selected_issues))

\* a key of line 228 that selected_issues lacks: KeyError
key_error(ss) ==
    \E i \in 0..(Len(parse_vulnerabilities(ss.vulnerability_report)) - 1) :
        checkbox_key(i) \notin DOMAIN ss.selected_issues

button_drawn(ss) == ss.show_resolve_button /\ ss.issues_selected

\* Faulty variant of resolve_block (for C4): issue_resolved is set before the
\* rewrite is called.
resolve_block_marks_first(ss, t, resolve, rewrite_r, save_r) ==
    IF ss.show_resolve_button /\ ss.issues_selected /\ resolve
    THEN LET s0 == [ss EXCEPT !.issue_resolved = TRUE]
             rewrite == [op |-> "rewrite_code_with_openai",
                         args |-> <<ss.last_user_code, <<>>>>, result |-> rewrite_r]
         IN  IF rewrite_r.raised
             THEN [ss |-> s0, calls |-> <<rewrite>>, raised |-> TRUE]
             ELSE [ss |-> [s0 EXCEPT !.fixed_code = rewrite_r.value],
                   calls |-> <<rewrite>>, raised |-> FALSE]
    ELSE [ss |-> ss, calls |-> <<>>, raised |-> FALSE]

\* app.py lines 224-240
resolve_block(ss, t, resolve, rewrite_r, save_r) ==
    IF button_drawn(ss) /\ resolve
    THEN IF key_error(ss)
         THEN [ss |-> ss, calls |-> <<>>, raised |-> TRUE]
         ELSE LET rewrite == Call("rewrite_code_with_openai",
                                  <<ss.last_user_code, selected_issues_text(ss)>>,
                                  rewrite_r)
              IN  IF rewrite_r.raised
                  THEN [ss |-> ss, calls |-> <<rewrite>>, raised |-> TRUE]
                  ELSE LET s1 == [ss EXCEPT !.fixed_code = rewrite_r.value,
                                            !.issue_resolved = TRUE]
                           save == Call("save_code",
                                        <<s1.user_id, t, s1.last_user_code,
                                          s1.fixed_code>>, save_r)
                       IN  IF s1.user_id # None
                           THEN [ss |-> s1, calls |-> <<rewrite, save>>,
                                 raised |-> save_r.raised]
                           ELSE [ss |-> s1, calls |-> <<rewrite>>, raised |-> FALSE]
    ELSE [ss |-> ss, calls |-> <<>>, raised |-> FALSE]

\* One run of the Home page, app.py lines 171-248, for a logged-in session.
\* check, resolve: the button the user clicked, if any.
home_run(ss, w, t, c, check, resolve, scan_r, save1_r, rewrite_r, save2_r) ==
    LET sb == scan_block(ss, t, c, check, scan_r, save1_r)
    IN  IF sb.raised
        THEN [ss |-> sb.ss, registered |-> NoWidgets, button |-> FALSE,
              calls |-> sb.calls, raised |-> TRUE]
        ELSE LET rb == report_block(sb.ss, w)
                 xb == resolve_block(rb.ss, t, resolve, rewrite_r, save2_r)
             IN  [ss |-> xb.ss, registered |-> rb.registered,
                  button |-> button_drawn(rb.ss),
                  calls |-> sb.calls \o xb.calls, raised |-> xb.raised]

\* The widget states the framework keeps after a run: a run that ends normally
\* (or by st.rerun) drops every widget it did not draw, a run that raises keeps
\* them all.
kept_widgets(w, registered, raised) ==
    IF raised THEN Merge(w, registered) ELSE registered


----------------------------------------------------------------------------
(* Submission history, app.py lines 66-136.  Dates are day numbers; a text *)
(* is the sequence of its characters.                                      *)

Today == 0          \* the day of the session

\* an optional date: date_input returns None or a date
NoDate == <<>>
Date(d) == <<d>>

\* How many days before Today the submissions were made: each side of every
\* boundary of the ladder.
Offsets == {0, 1, 2, 7, 8, 30, 31}

\* title and input code of the submissions: "Ab" with code "bA", "c" with "cc"
TitleAndCode == {<<<<"A", "b">>, <<"b", "A">>>>, <<<<"c">>, <<"c", "c">>>>}
Queries == {<<>>, <<"a">>, <<"B", "a">>}
FilterDates == {NoDate, Date(Today - 7)}

\* created_at as the database returns it: a day and the microseconds of the
\* second.
Timestamp(d, usec) == [date |-> d, usec |-> usec]

\* The submissions: one for each title and day, written at a fraction of a
\* second, and one written today on a whole second.
Rows ==
    {[title |-> tc[1], input_code |-> tc[2], output_code |-> None,
      created_at |-> Timestamp(Today - k, 1)] : tc \in TitleAndCode, k \in Offsets}
        \cup {[title |-> <<"c">>, input_code |-> <<"c", "c">>, output_code |-> None,
               created_at |-> Timestamp(Today, 0)]}

RowSeqs == UNION {[1..n -> Rows] : n \in 0..MaxRows}

lower_char(ch) ==
    IF ch = "A" THEN "a" ELSE IF ch = "B" THEN "b" ELSE IF ch = "C" THEN "c" ELSE ch

\* str.lower()
lower(text) == [i \in 1..Len(text) |-> lower_char(text[i])]

\* sub in text
contains(sub, text) ==
    \E k \in 0..(Len(text) - Len(sub)) : SubSeq(text, k + 1, k + Len(sub)) = sub

\* datetime.combine(date, time)
combine(d, time) == [date |-> d, time |-> time]

\* str(created_at): the fraction is printed only when it is not zero
str_datetime(created_at) ==
    IF created_at.usec = 0 THEN <<created_at.date>>
    ELSE <<created_at.date, ".", created_at.usec>>

\* datetime.strptime(text, '%Y-%m-%d %H:%M:%S.%f') raises ValueError on a text
\* without the fraction
parseable(text) == Len(text) = 3

strptime(text) == [date |-> text[1], usec |-> text[3]]

date_of(dt) == dt.date

Buckets == {"Today", "Yesterday", "Previous 7 Days", "Previous 30 Days", "Older"}

NotDrawn == [b \in {} |-> <<>>]

\* Faulty variant of passes_filters (for C6): the search looks at the title only.
passes_filters_title_only(row, query, start, end) ==
    LET submission_date == date_of(strptime(str_datetime(row.created_at)))
    IN  /\ \/ query = <<>>
           \/ contains(lower(query), lower(row.title))
        /\ \/ start = NoDate
           \/ submission_date >= date_of(start[1])
        /\ \/ end = NoDate
           \/ submission_date <= date_of(end[1])

\* app.py lines 106-110; start, end are the combined datetimes of lines 83-86
passes_filters(row, query, start, end) ==
    LET submission_date == date_of(strptime(str_datetime(row.created_at)))
    IN  /\ \/ query = <<>>
           \/ contains(lower(query), lower(row.title))
           \/ contains(lower(query), lower(row.input_code))
        /\ \/ start = NoDate
           \/ submission_date >= date_of(start[1])
        /\ \/ end = NoDate
           \/ submission_date <= date_of(end[1])

\* app.py lines 112-126
bucket(submission_date, today, yesterday, last_7_days, last_30_days) ==
    IF submission_date = today THEN "Today"
    ELSE IF submission_date = yesterday THEN "Yesterday"
    ELSE IF last_7_days <= submission_date /\ submission_date < today
         THEN "Previous 7 Days"
    ELSE IF last_30_days <= submission_date /\ submission_date < last_7_days
         THEN "Previous 30 Days"
    ELSE "Older"

\* app.py lines 105-126: the loop over recent_codes, from row i on
RECURSIVE group_rows(_, _, _, _)
group_rows(rows, i, grouped, f) ==
    IF i > Len(rows) THEN Returns(grouped)
    ELSE IF ~parseable(str_datetime(rows[i].created_at)) THEN Raises
    ELSE LET row == rows[i]
             submission_date == date_of(strptime(str_datetime(row.created_at)))
             b == bucket(submission_date, f.today, f.yesterday, f.last_7_days,
                         f.last_30_days)
         IN  IF passes_filters(row, f.query, f.start, f.end)
             THEN group_rows(rows, i + 1,
                             [grouped EXCEPT ![b] = Append(@, row)], f)
             ELSE group_rows(rows, i + 1, grouped, f)

\* show_recent_codes_on_main, app.py lines 66-126: grouped_codes, unless
\* strptime raises.  now1 and now2 are the two readings of datetime.now().date()
\* on line 93.
show_recent_codes_on_main(rows, query, start_in, end_in, now1, now2) ==
    LET start == IF start_in # NoDate THEN Date(combine(start_in[1], "min"))
                 ELSE NoDate
        end == IF end_in # NoDate THEN Date(combine(end_in[1], "max")) ELSE NoDate
    IN  IF rows = <<>> THEN Returns(NotDrawn)
        ELSE LET today == now1
                 yesterday == now2 - 1
             IN  group_rows(rows, 1, [b \in Buckets |-> <<>>],
                            [query |-> query, start |-> start, end |-> end,
                             today |-> today, yesterday |-> yesterday,
                             last_7_days |-> today - 7,
                             last_30_days |-> today - 30])

\* The two readings of the clock on line 93: the second is not earlier than the
\* first, and midnight may pass between them.
ClockReadings == {<<Today, Today>>, <<Today, Today + 1>>}

----------------------------------------------------------------------------
(* Collaborator outcomes                                                   *)

ScanResults == {Returns(r) : r \in Reports} \cup {Raises}
RewriteResults == {Returns(f) : f \in FixedCodes} \cup {Raises}
SaveResults == {Returns(None), Raises}
GetUserResults == {Returns(u) : u \in UserIds \cup {None}} \cup {Raises}

\* Only the collaborators a run reaches have an outcome.
Reached(reached, results) == IF reached THEN results ELSE {Returns(None)}

----------------------------------------------------------------------------
(* Initial state: lines 27-41 of app.py, then the first run of the script, *)
(* which draws the login page (login sets login_disabled).  Registration   *)
(* (user_controller.py lines 35-59) touches none of the state below and is *)
(* left out.                                                               *)

Init ==
    /\ session_state =
           [session_vars EXCEPT !.user_id = None] @@
           [user |-> None, login_disabled |-> FALSE]
    /\ widgets = NoWidgets
    /\ rendered_boxes = {}
    /\ resolve_button = FALSE
    /\ login_button = TRUE
    /\ option = "Home"
    /\ title = ""
    /\ user_code = ""
    /\ event = "start"
    /\ calls = <<>>
    /\ report_source = ""
    /\ recent_codes = <<>>
    /\ search_query = <<>>
    /\ start_date = NoDate
    /\ end_date = NoDate
    /\ clock = <<Today, Today>>
    /\ grouped_codes = NotDrawn

\* The login page as drawn by a run that starts in state ss and ends normally:
\* user_controller.py line 21.
LoginPage(ss) ==
    /\ login_button' = ~ss.login_disabled
    /\ widgets' = NoWidgets
    /\ rendered_boxes' = {}
    /\ resolve_button' = FALSE
    /\ option' = "Home"
    /\ title' = ""
    /\ user_code' = ""

\* A run of the Home page for event ev, from session ss and widget states w.
HomePage(ev, pre, ss, w, t, c, check, resolve) ==
    \E scan_r \in Reached(will_scan(ss, t, c, check), ScanResults),
       rewrite_r \in Reached(resolve, RewriteResults) :
      \E save1_r \in Reached(will_scan(ss, t, c, check) /\ ~scan_r.raised, SaveResults),
         save2_r \in Reached(resolve /\ ~rewrite_r.raised, SaveResults) :
        LET r == home_run(ss, w, t, c, check, resolve, scan_r, save1_r, rewrite_r,
                          save2_r)
        IN  /\ session_state' = r.ss
            /\ widgets' = kept_widgets(w, r.registered, r.raised)
            /\ rendered_boxes' = DOMAIN r.registered
            /\ resolve_button' = r.button
            /\ calls' = pre \o r.calls
            /\ report_source' = IF will_scan(ss, t, c, check) THEN c ELSE report_source
            /\ event' = ev
            /\ title' = t
            /\ user_code' = c
            /\ option' = "Home"
            /\ login_button' = FALSE

\* user_controller.py lines 15-33, and the run that follows st.rerun()
Login ==
    /\ ~session_state.logged_in
    /\ login_button
    /\ \E username \in Usernames, got \in GetUserResults :
        LET s1 == [session_state EXCEPT !.login_disabled = TRUE]
            get == Call("get_user", <<username>>, got)
        IN  IF got.raised
            THEN /\ session_state' = s1
                 /\ login_button' = ~session_state.login_disabled
                 /\ calls' = <<get>>
                 /\ event' = "login"
                 /\ UNCHANGED <<widgets, rendered_boxes, resolve_button, option, title,
                                user_code, report_source>>
            ELSE IF got.value # None
            THEN /\ HomePage("login", <<get>>,
                             [s1 EXCEPT !.logged_in = TRUE, !.user = username,
                                        !.user_id = got.value],
                             NoWidgets, "", "", FALSE, FALSE)
            ELSE /\ session_state' = [s1 EXCEPT !.login_disabled = FALSE]
                 /\ LoginPage(session_state)
                 /\ calls' = <<get>>
                 /\ event' = "login"
                 /\ UNCHANGED report_source
    /\ UNCHANGED histVars

\* Faulty variant of Logout (for C10): logging out also clears the report and
\* the selections.
Logout_clears_report ==
    /\ session_state.logged_in
    /\ session_state' = [session_state EXCEPT !.logged_in = FALSE, !.user = None,
                                              !.user_id = None,
                                              !.vulnerability_report = <<>>,
                                              !.selected_issues = [k \in {} |-> FALSE]]
    /\ login_button' = ~session_state.login_disabled
    /\ widgets' = [x \in {} |-> FALSE]
    /\ rendered_boxes' = {}
    /\ resolve_button' = FALSE
    /\ option' = "Home"
    /\ title' = ""
    /\ user_code' = ""
    /\ calls' = <<>>
    /\ event' = "logout"
    /\ search_query' = <<>>
    /\ start_date' = NoDate
    /\ end_date' = NoDate
    /\ grouped_codes' = NotDrawn
    /\ UNCHANGED <<report_source, recent_codes, clock>>

\* app.py lines 160-164, and the run of the login page that follows st.rerun()
Logout ==
    /\ session_state.logged_in
    /\ session_state' = [session_state EXCEPT !.logged_in = FALSE, !.user = None,
                                              !.user_id = None]
    /\ LoginPage(session_state')
    /\ calls' = <<>>
    /\ event' = "logout"
    /\ search_query' = <<>>
    /\ start_date' = NoDate
    /\ end_date' = NoDate
    /\ grouped_codes' = NotDrawn
    /\ UNCHANGED <<report_source, recent_codes, clock>>

OnHome == session_state.logged_in /\ option = "Home"

\* the user edits the title
EditTitle ==
    /\ OnHome
    /\ \E t \in Titles \ {title} :
        HomePage("title", <<>>, session_state, widgets, t, user_code, FALSE, FALSE)
    /\ UNCHANGED histVars

\* the user edits the code
EditCode ==
    /\ OnHome
    /\ \E c \in Codes \ {user_code} :
        HomePage("code", <<>>, session_state, widgets, title, c, FALSE, FALSE)
    /\ UNCHANGED histVars

\* the user clicks "Check Vulnerabilities"
CheckVulnerabilities ==
    /\ OnHome
    /\ HomePage("check", <<>>, session_state, widgets, title, user_code, TRUE, FALSE)
    /\ UNCHANGED histVars

\* the user ticks or unticks a checkbox: the browser sends the new state, the
\* on_change callback runs, then the script
Toggle ==
    /\ OnHome
    /\ \E id \in rendered_boxes :
        HomePage("toggle", <<>>, update_issues_selected(session_state),
                 [widgets EXCEPT ![id] = ~@], title, user_code, FALSE, FALSE)
    /\ UNCHANGED histVars

\* the user clicks "Resolve Selected Issues with OpenAI"
Resolve ==
    /\ OnHome
    /\ resolve_button
    /\ HomePage("resolve", <<>>, session_state, widgets, title, user_code, FALSE, TRUE)
    /\ UNCHANGED histVars

\* A run of the Recent Codes page, app.py lines 166-169, with the history
\* filters q, sd, ed.
HistoryPage(ev, q, sd, ed) ==
    /\ option' = "Recent Codes"
    /\ search_query' = q
    /\ start_date' = sd
    /\ end_date' = ed
    /\ IF recent_codes = <<>>
       THEN /\ grouped_codes' = NotDrawn
            /\ UNCHANGED clock
       ELSE \E readings \in ClockReadings :
               LET r == show_recent_codes_on_main(recent_codes, q, sd, ed,
                                                  readings[1], readings[2])
               IN  /\ clock' = readings
                   /\ grouped_codes' = IF r.raised THEN NotDrawn ELSE r.value
    /\ event' = ev
    /\ calls' = <<>>
    /\ login_button' = FALSE
    /\ UNCHANGED <<session_state, report_source, recent_codes>>

\* the user picks "Recent Codes" in the menu: the Home page's widgets are gone
RecentCodes ==
    /\ OnHome
    /\ HistoryPage("menu", <<>>, NoDate, NoDate)
    /\ widgets' = NoWidgets
    /\ rendered_boxes' = {}
    /\ resolve_button' = FALSE
    /\ title' = ""
    /\ user_code' = ""

OnRecentCodes == session_state.logged_in /\ option = "Recent Codes"

HomeWidgetsGone == UNCHANGED <<widgets, rendered_boxes, resolve_button, title, user_code>>

\* the user types in "Search by title or code content"
Search ==
    /\ OnRecentCodes
    /\ \E q \in Queries \ {search_query} : HistoryPage("filter", q, start_date, end_date)
    /\ HomeWidgetsGone

\* the user picks or clears the start date
StartDate ==
    /\ OnRecentCodes
    /\ \E d \in FilterDates \ {start_date} :
           HistoryPage("filter", search_query, d, end_date)
    /\ HomeWidgetsGone

\* the user picks or clears the end date
EndDate ==
    /\ OnRecentCodes
    /\ \E d \in FilterDates \ {end_date} :
           HistoryPage("filter", search_query, start_date, d)
    /\ HomeWidgetsGone

\* the user picks "Home" in the menu
Home ==
    /\ OnRecentCodes
    /\ HomePage("menu", <<>>, session_state, NoWidgets, "", "", FALSE, FALSE)
    /\ search_query' = <<>>
    /\ start_date' = NoDate
    /\ end_date' = NoDate
    /\ grouped_codes' = NotDrawn
    /\ UNCHANGED <<recent_codes, clock>>

Next ==
    \/ Login
    \/ Logout
    \/ EditTitle
    \/ EditCode
    \/ CheckVulnerabilities
    \/ Toggle
    \/ Resolve
    \/ RecentCodes
    \/ Home

Spec == Init /\ [][Next]_vars

\* The history page on its own: a logged-in session whose user has the
\* submissions recent_codes in the database.
InitHist ==
    /\ session_state =
           [session_vars EXCEPT !.logged_in = TRUE, !.user_id = "id1"] @@
           [user |-> "alice", login_disabled |-> TRUE]
    /\ widgets = NoWidgets
    /\ rendered_boxes = {}
    /\ resolve_button = FALSE
    /\ login_button = FALSE
    /\ option = "Home"
    /\ title = ""
    /\ user_code = ""
    /\ event = "login"
    /\ calls = <<>>
    /\ report_source = ""
    /\ recent_codes \in RowSeqs
    /\ search_query = <<>>
    /\ start_date = NoDate
    /\ end_date = NoDate
    /\ clock = <<Today, Today>>
    /\ grouped_codes = NotDrawn

NextHist ==
    \/ RecentCodes
    \/ Search
    \/ StartDate
    \/ EndDate
    \/ Home

SpecHist == InitHist /\ [][NextHist]_vars

----------------------------------------------------------------------------
(* Properties                                                              *)

\* The calls of the last interaction that raised.
RaisedCalls == {i \in 1..Len(calls) : calls[i].result.raised}

HasCall(op) == \E i \in 1..Len(calls) : calls[i].op = op

\* A scan call, or the save_code that follows it, raised: the run ended inside
\* lines 181-202 and never reached line 205.
ScanBlockRaised ==
    \E i \in RaisedCalls :
        \/ calls[i].op = "scan_vulnerabilities"
        \/ calls[i].op = "save_code" /\ calls[i].args[4] = None

\* The last run was a run of the Home page that reached line 224.
ReachedButton ==
    /\ session_state.logged_in
    /\ option = "Home"
    /\ ~ScanBlockRaised

AnySelected == \E k \in DOMAIN session_state.selected_issues :
                   session_state.selected_issues[k] = TRUE

\* C1: whenever a run of the Home page reaches the decision of line 224, the
\* resolve button is drawn if and only if some entry of selected_issues is
\* true, and issues_selected and show_resolve_button both equal
\* any(selected_issues.values()).
C1_ButtonIffAnySelected ==
    ReachedButton =>
        /\ resolve_button <=> AnySelected
        /\ session_state.issues_selected <=> AnySelected
        /\ session_state.show_resolve_button <=> AnySelected

\* The scanner returned in the last run and the run went on to draw the report.
ScanPerformed ==
    /\ \E i \in 1..Len(calls) :
           calls[i].op = "scan_vulnerabilities" /\ ~calls[i].result.raised
    /\ ReachedButton

IssueCount == Len(SelectSeq(session_state.vulnerability_report, IsIssue))

\* C2: at the end of a run in which a new scan was performed, the keys of
\* selected_issues are exactly issue_0 .. issue_(k-1) for the k issues of the
\* new report, and every entry is false.
C2_FreshSelectionAfterScan ==
    ScanPerformed =>
        /\ DOMAIN session_state.selected_issues =
               {<<"issue_", i>> : i \in 0..(IssueCount - 1)}
        /\ \A k \in DOMAIN session_state.selected_issues :
               session_state.selected_issues[k] = FALSE

SixVariables(ss) ==
    <<ss.vulnerability_report, ss.selected_issues, ss.scan_complete,
      ss.last_user_code, ss.fixed_code, ss.issue_resolved>>

CollaboratorRaised(ops) == \E i \in RaisedCalls : calls[i].op \in ops

\* C3: an interaction in which scan_vulnerabilities, rewrite_code_with_openai
\* or save_code raises leaves vulnerability_report, selected_issues,
\* scan_complete, last_user_code, fixed_code and issue_resolved as they were
\* before the interaction.
C3_AbortLeavesStateUnchanged ==
    [][CollaboratorRaised({"scan_vulnerabilities", "rewrite_code_with_openai",
                           "save_code"})'
           => SixVariables(session_state') = SixVariables(session_state)]_vars

\* C8: the reset of the report and of the selections, the scanner call and the
\* save of a new submission happen only in a run triggered by a click on
\* "Check Vulnerabilities".
C8_ScanOnlyOnClick ==
    [][(\/ HasCall("scan_vulnerabilities")'
        \/ HasCall("save_code")' /\ ~HasCall("rewrite_code_with_openai")'
        \/ (/\ session_state.vulnerability_report # EmptyReport
            /\ session_state'.vulnerability_report = EmptyReport)
        \/ (/\ session_state.selected_issues # EmptyDict
            /\ session_state'.selected_issues = EmptyDict))
           => event' = "check"]_vars

\* C9: whenever the session is logged out, login_disabled is false.
C9_LoggedOutCanLogIn ==
    ~session_state.logged_in => ~session_state.login_disabled

RewriteRaised == \E i \in RaisedCalls : calls[i].op = "rewrite_code_with_openai"

SavedWithOutput ==
    \E i \in 1..Len(calls) : calls[i].op = "save_code" /\ calls[i].args[4] # None

\* C4: an interaction in which rewrite_code_with_openai raises leaves
\* issue_resolved and fixed_code at their prior values and saves no submission
\* that has an output code.
C4_FailedRewriteNotResolved ==
    [][RewriteRaised' =>
           /\ session_state'.issue_resolved = session_state.issue_resolved
           /\ session_state'.fixed_code = session_state.fixed_code
           /\ ~SavedWithOutput']_vars

\* C4 witness: a resolve click whose rewrite raised, in a session that no
\* earlier resolve had marked.
C4_Witness ==
    /\ event = "resolve"
    /\ RewriteRaised
    /\ ~session_state.issue_resolved

\* The indices whose entry of selected_issues is true.
SelectedIndices ==
    {i \in 0..(IssueCount - 1) :
        /\ <<"issue_", i>> \in DOMAIN session_state.selected_issues
        /\ session_state.selected_issues[<<"issue_", i>>]}

\* SelectedIndices in strictly ascending order
AscendingSelected ==
    CHOOSE q \in [1..Cardinality(SelectedIndices) -> SelectedIndices] :
        \A a, b \in DOMAIN q : a < b => q[a] < q[b]

ExpectedInstructions ==
    join([j \in DOMAIN AscendingSelected |->
              parse_vulnerabilities(session_state.vulnerability_report)
                  [AscendingSelected[j] + 1]])

\* C7: every call of rewrite_code_with_openai gets as instructions the
\* newline-joined texts of the issues whose selected_issues entry is true, in
\* strictly ascending index order, and as code the last_user_code of the scan
\* that wrote the current report.
C7_RewriteArguments ==
    \A i \in 1..Len(calls) :
        calls[i].op = "rewrite_code_with_openai" =>
            /\ calls[i].args[2] = ExpectedInstructions
            /\ calls[i].args[1] = report_source
            /\ calls[i].args[1] = session_state.last_user_code

\* C7 witness: a rewrite call made with two issues selected.
C7_Witness ==
    /\ HasCall("rewrite_code_with_openai")
    /\ Cardinality(SelectedIndices) = 2

\* C10: the Logout action leaves vulnerability_report, last_user_code,
\* fixed_code, selected_issues, issues_selected, show_resolve_button,
\* issue_resolved, scan_complete (and login_disabled) unchanged and sets
\* logged_in to false, user and user_id to None.
C10_LogoutFrame ==
    [][event' = "logout" =>
           /\ session_state' = [session_state EXCEPT !.logged_in = FALSE,
                                                     !.user = None,
                                                     !.user_id = None]
           /\ session_state'.vulnerability_report = session_state.vulnerability_report
           /\ session_state'.last_user_code = session_state.last_user_code
           /\ session_state'.fixed_code = session_state.fixed_code
           /\ session_state'.selected_issues = session_state.selected_issues
           /\ session_state'.issues_selected = session_state.issues_selected
           /\ session_state'.show_resolve_button = session_state.show_resolve_button
           /\ session_state'.issue_resolved = session_state.issue_resolved
           /\ session_state'.scan_complete = session_state.scan_complete]_vars

\* C10 witness: a logged-out session, just after Logout, that still holds a
\* report, a selected issue and a fixed code.
C10_Witness ==
    /\ event = "logout"
    /\ ~session_state.logged_in
    /\ session_state.vulnerability_report # EmptyReport
    /\ AnySelected
    /\ session_state.fixed_code # ""
    /\ session_state.issue_resolved

\* The last run built and drew the grouped history: there were submissions and
\* strptime raised on none of them.
HistoryDrawn == option = "Recent Codes" /\ DOMAIN grouped_codes = Buckets

\* The buckets a row appears in.
BucketsOf(row) ==
    {b \in DOMAIN grouped_codes :
        \E j \in 1..Len(grouped_codes[b]) : grouped_codes[b][j] = row}

same_letter(a, b) ==
    \/ a = b
    \/ {a, b} \in {{"a", "A"}, {"b", "B"}, {"c", "C"}}

\* q occurs in text, ignoring case
occurs_ignoring_case(q, text) ==
    \E k \in 0..(Len(text) - Len(q)) :
        \A j \in 1..Len(q) : same_letter(q[j], text[k + j])

\* The filters as stated: the search text is empty or occurs, ignoring case, in
\* the title or in the input code, and the submission's day lies within the
\* start and end days, both inclusive.
Accepted(row) ==
    /\ \/ search_query = <<>>
       \/ occurs_ignoring_case(search_query, row.title)
       \/ occurs_ignoring_case(search_query, row.input_code)
    /\ start_date # NoDate => row.created_at.date >= start_date[1]
    /\ end_date # NoDate => row.created_at.date <= end_date[1]

\* The bucket of a submission made on day d, by the ladder as stated.
LadderBucket(d, today) ==
    IF d = today THEN "Today"
    ELSE IF d = today - 1 THEN "Yesterday"
    ELSE IF today - 7 <= d /\ d <= today - 2 THEN "Previous 7 Days"
    ELSE IF today - 30 <= d /\ d <= today - 8 THEN "Previous 30 Days"
    ELSE "Older"

RowsOf(rows) == {rows[i] : i \in 1..Len(rows)}

\* C5: every submission that passes the filters is in exactly one bucket, the
\* first that matches in the order Today, Yesterday, Previous 7 Days,
\* Previous 30 Days, Older, for its date relative to today.
C5_OneBucketByLadder ==
    HistoryDrawn =>
        \A row \in RowsOf(recent_codes) :
            Accepted(row) =>
                BucketsOf(row) = {LadderBucket(row.created_at.date, clock[1])}

\* The ladder of C5 in the runs whose two readings of the clock fall on the
\* same day.
LadderWithOneDay ==
    (HistoryDrawn /\ clock[1] = clock[2]) =>
        \A row \in RowsOf(recent_codes) :
            Accepted(row) =>
                BucketsOf(row) = {LadderBucket(row.created_at.date, clock[1])}

====
